---- MODULE Spec2Model ----
(***************************************************************************)
(* Quiz progression state machine of src/app/page.tsx (component Home).    *)
(*                                                                         *)
(* The state is the five useState cells of Home, the memoised question     *)
(* list, and the pending flag of the reset effect whose dependency is      *)
(* activeQuizId.  The question bank (bank.json) is read-only input data:   *)
(* it is drawn once, in Init, from a bounded family of banks and never     *)
(* changes afterwards.                                                     *)
(*                                                                         *)
(* null / undefined are modelled as follows: activeQuizId and              *)
(* selectedChoice hold the string Null; an optional object (a quiz of the  *)
(* bank, questions[questionIndex], a why_incorrect lookup) is a sequence   *)
(* of length 0 (absent) or 1 (present).                                    *)
(*                                                                         *)
(* lastOp, lastArg, pre and advances are history variables: the last user  *)
(* operation, its argument, the session as it was when that operation was  *)
(* requested, and the number of advance operations taken since the current *)
(* run began (at the last reset effect or replay).  No operation reads     *)
(* them.                                                                   *)
(***************************************************************************)
EXTENDS Integers, Sequences, FiniteSets, TLC

VARIABLES quizBank, activeQuizId, questions, questionIndex, selectedChoice,
          finished, submitted, effectPending, lastOp, lastArg, pre, advances

vars == <<quizBank, activeQuizId, questions, questionIndex, selectedChoice,
          finished, submitted, effectPending, lastOp, lastArg, pre, advances>>

\* Largest question number that occurs in a generated quiz.
MaxNumber == 3

Null == "null"

quizOrder == <<"quiz1", "quiz2", "quiz3">>

QuizIds == {quizOrder[i] : i \in DOMAIN quizOrder}

CategoryNames == <<"c1", "c2">>

-----------------------------------------------------------------------------
(* Input data: questions, categories, quizzes, banks.                      *)

\* Keys of the choices record of question number n.
ChoiceKeysOf(n) == IF n % 2 = 1 THEN {"A", "B"} ELSE {"A", "B", "C"}

CorrectOf(n) == IF n % 2 = 0 THEN "C" ELSE IF n % 4 = 1 THEN "B" ELSE "A"

\* Keys that have a why_incorrect entry: every wrong key, except that an
\* even-numbered question has no entry for "A".
RationaleKeysOf(n) ==
  (ChoiceKeysOf(n) \ {CorrectOf(n)}) \ (IF n % 2 = 0 THEN {"A"} ELSE {})

\* A value of type Question.
QuestionOf(n) ==
  [number         |-> n,
   question       |-> <<"prompt", n>>,
   choices        |-> [k \in ChoiceKeysOf(n) |-> <<"choice", n, k>>],
   correct_answer |-> CorrectOf(n),
   why_correct    |-> <<"why_correct", n>>,
   why_incorrect  |-> [k \in RationaleKeysOf(n) |-> <<"why_incorrect", n, k>>]]

\* Sequences over S without repetition, of every length 0..Cardinality(S).
InjectiveSeqs(S) ==
  UNION { { s \in [1..k -> S] : \A i, j \in 1..k : i # j => s[i] # s[j] }
          : k \in 0..Cardinality(S) }

Range(s) == { s[i] : i \in DOMAIN s }

\* A value of type Category.
CategoryOf(name, nums) ==
  [category  |-> name,
   questions |-> [i \in DOMAIN nums |-> QuestionOf(nums[i])]]

\* Values of type Quiz: no category at all, or two categories whose
\* questions carry pairwise distinct numbers in any source order.
Quizzes ==
  { [categories |-> <<>>] } \cup
  { [categories |-> << CategoryOf(CategoryNames[1], s1),
                       CategoryOf(CategoryNames[2], s2) >>] :
      <<s1, s2>> \in { p \in InjectiveSeqs(1..MaxNumber)
                              \X InjectiveSeqs(1..MaxNumber) :
                         Range(p[1]) \cap Range(p[2]) = {} } }

SecondQuiz ==
  [categories |-> << CategoryOf(CategoryNames[2], <<2, 1>>) >>]

\* Values of type QuizBank, restricted to the ids of quizOrder.
Banks ==
  { [q \in QuizIds |-> CASE q = "quiz1" -> b1 [] q = "quiz2" -> b2
                         [] OTHER -> b3] :
      <<b1, b2, b3>> \in
        ({<<>>} \cup { <<z>> : z \in Quizzes })
          \X { <<>>, <<SecondQuiz>> }
          \X { <<>>, <<[categories |-> <<>>]>> } }

-----------------------------------------------------------------------------
(* The questions memo.                                                     *)

\* category.questions.map(question => ({...question, category}))
Enrich(cat) ==
  [i \in DOMAIN cat.questions |->
     [number         |-> cat.questions[i].number,
      question       |-> cat.questions[i].question,
      choices        |-> cat.questions[i].choices,
      correct_answer |-> cat.questions[i].correct_answer,
      why_correct    |-> cat.questions[i].why_correct,
      why_incorrect  |-> cat.questions[i].why_incorrect,
      category       |-> cat.category]]

RECURSIVE FlatMap(_)
FlatMap(cats) ==
  IF cats = <<>> THEN <<>>
  ELSE Enrich(Head(cats)) \o FlatMap(Tail(cats))

\* Variant of InsertByNumber with the comparator reversed
\* (b.number - a.number).
InsertByNumberDescending(s, x) ==
  LET k == Cardinality({ i \in DOMAIN s : x.number - s[i].number <= 0 })
  IN  SubSeq(s, 1, k) \o <<x>> \o SubSeq(s, k + 1, Len(s))

\* x placed behind every element of the sorted sequence s whose number is
\* not larger (Array.prototype.sort is stable).
InsertByNumber(s, x) ==
  LET k == Cardinality({ i \in DOMAIN s : s[i].number - x.number <= 0 })
  IN  SubSeq(s, 1, k) \o <<x>> \o SubSeq(s, k + 1, Len(s))

RECURSIVE SortByNumber(_)
SortByNumber(s) ==
  IF s = <<>> THEN <<>>
  ELSE InsertByNumber(SortByNumber(SubSeq(s, 1, Len(s) - 1)), s[Len(s)])

\* The value of the questions memo for quiz id `id` over bank `bank`.
Flatten(bank, id) ==
  IF id = Null \/ id \notin DOMAIN bank THEN <<>>
  ELSE IF bank[id] = <<>> THEN <<>>
  ELSE SortByNumber(FlatMap(bank[id][1].categories))

-----------------------------------------------------------------------------
(* Values derived on every render.                                         *)

\* questions[questionIndex], 0-based; <<>> when undefined.
currentQuestion ==
  IF questionIndex + 1 \in DOMAIN questions
  THEN <<questions[questionIndex + 1]>> ELSE <<>>

\* Variant of isCorrect that grades the selection before it is submitted.
isCorrectUngraded ==
  IF selectedChoice # Null /\ currentQuestion # <<>>
  THEN selectedChoice = currentQuestion[1].correct_answer
  ELSE FALSE

isCorrect ==
  IF submitted /\ selectedChoice # Null /\ currentQuestion # <<>>
  THEN selectedChoice = currentQuestion[1].correct_answer
  ELSE FALSE

\* Variant of wrongReason that reports the rationale before submission.
wrongReasonUngraded ==
  IF /\ selectedChoice # Null
     /\ currentQuestion # <<>>
     /\ selectedChoice # currentQuestion[1].correct_answer
  THEN IF selectedChoice \in DOMAIN currentQuestion[1].why_incorrect
       THEN <<currentQuestion[1].why_incorrect[selectedChoice]>>
       ELSE <<>>
  ELSE <<>>

\* <<>> for null / undefined, <<text>> otherwise.
wrongReason ==
  IF /\ submitted
     /\ selectedChoice # Null
     /\ currentQuestion # <<>>
     /\ selectedChoice # currentQuestion[1].correct_answer
  THEN IF selectedChoice \in DOMAIN currentQuestion[1].why_incorrect
       THEN <<currentQuestion[1].why_incorrect[selectedChoice]>>
       ELSE <<>>
  ELSE <<>>

noQuestionsLoaded == activeQuizId # Null /\ Len(questions) = 0

\* The question panel is rendered.
QuestionPanelShown ==
  /\ ~noQuestionsLoaded
  /\ activeQuizId # Null
  /\ currentQuestion # <<>>
  /\ ~finished

SubmitButtonShown == QuestionPanelShown /\ ~submitted

\* Variant of NextButtonShown that offers the button before submission.
NextButtonUnguarded == QuestionPanelShown

NextButtonShown == QuestionPanelShown /\ submitted

FinishedPanelShown == finished

-----------------------------------------------------------------------------
(* Initial state and operations.                                           *)

\* The session as rendered: the state cells and the questions memo.
Snapshot ==
  [activeQuizId   |-> activeQuizId,
   questions      |-> questions,
   questionIndex  |-> questionIndex,
   selectedChoice |-> selectedChoice,
   finished       |-> finished,
   submitted      |-> submitted]

\* History bookkeeping of a user operation.
Record(op, arg) ==
  /\ lastOp' = op
  /\ lastArg' = arg
  /\ pre' = Snapshot
  /\ advances' = CASE op = "advance" -> advances + 1
                   [] op = "replay"  -> 0
                   [] OTHER          -> advances

Init ==
  /\ quizBank \in Banks
  /\ activeQuizId = IF quizBank["quiz1"] # <<>> THEN "quiz1" ELSE Null
  /\ questions = Flatten(quizBank, activeQuizId)
  /\ questionIndex = 0
  /\ selectedChoice = Null
  /\ finished = FALSE
  /\ submitted = FALSE
  /\ effectPending = TRUE
  /\ lastOp = "mount"
  /\ lastArg = Null
  /\ pre = Snapshot
  /\ advances = 0

\* Variant of ResetEffect that leaves submitted as it is.
ResetEffectKeepsSubmitted ==
  /\ effectPending
  /\ questionIndex' = 0
  /\ selectedChoice' = Null
  /\ finished' = FALSE
  /\ effectPending' = FALSE
  /\ advances' = 0
  /\ UNCHANGED <<quizBank, activeQuizId, questions, submitted, lastOp,
                 lastArg, pre>>

\* Variant of ResetEffect that leaves finished as it is.
ResetEffectKeepsFinished ==
  /\ effectPending
  /\ questionIndex' = 0
  /\ selectedChoice' = Null
  /\ submitted' = FALSE
  /\ effectPending' = FALSE
  /\ advances' = 0
  /\ UNCHANGED <<quizBank, activeQuizId, questions, finished, lastOp,
                 lastArg, pre>>

\* The reset effect, run after the render that changed activeQuizId (and
\* after the first render).
ResetEffect ==
  /\ effectPending
  /\ questionIndex' = 0
  /\ selectedChoice' = Null
  /\ finished' = FALSE
  /\ submitted' = FALSE
  /\ effectPending' = FALSE
  /\ advances' = 0
  /\ UNCHANGED <<quizBank, activeQuizId, questions, lastOp, lastArg, pre>>

\* Variant of SetActiveQuizId whose render schedules no reset effect.
SetActiveQuizIdNoEffect(id) ==
  IF id = activeQuizId
  THEN UNCHANGED <<activeQuizId, questions, effectPending>>
  ELSE /\ activeQuizId' = id
       /\ questions' = Flatten(quizBank, id)
       /\ UNCHANGED effectPending

\* setActiveQuizId(id) and the render it causes.  A set to the value already
\* held bails out: no render, no memo recomputation, no effect.
SetActiveQuizId(id) ==
  IF id = activeQuizId
  THEN UNCHANGED <<activeQuizId, questions, effectPending>>
  ELSE /\ activeQuizId' = id
       /\ questions' = Flatten(quizBank, id)
       /\ effectPending' = TRUE

\* Click on a button of the quiz selector.
SelectQuiz ==
  /\ ~effectPending
  /\ \E i \in DOMAIN quizOrder :
       /\ SetActiveQuizId(quizOrder[i])
       /\ Record("selectQuiz", quizOrder[i])
  /\ UNCHANGED <<quizBank, questionIndex, selectedChoice, finished, submitted>>

\* Click on "Pick another quiz".
ExitQuiz ==
  /\ ~effectPending
  /\ FinishedPanelShown
  /\ SetActiveQuizId(Null)
  /\ Record("exitQuiz", Null)
  /\ UNCHANGED <<quizBank, questionIndex, selectedChoice, finished, submitted>>

\* Variant of handleSelect that leaves submitted as it is.
handleSelectKeepsSubmitted ==
  /\ ~effectPending
  /\ QuestionPanelShown
  /\ \E choice \in DOMAIN currentQuestion[1].choices :
       /\ selectedChoice' = choice
       /\ Record("selectChoice", choice)
  /\ UNCHANGED <<quizBank, activeQuizId, questions, questionIndex, finished,
                 submitted, effectPending>>

\* Click on a choice button of the current question.
handleSelect ==
  /\ ~effectPending
  /\ QuestionPanelShown
  /\ \E choice \in DOMAIN currentQuestion[1].choices :
       /\ selectedChoice' = choice
       /\ Record("selectChoice", choice)
  /\ submitted' = FALSE
  /\ UNCHANGED <<quizBank, activeQuizId, questions, questionIndex, finished,
                 effectPending>>

\* Variant of handleSubmit without the early return on an absent choice.
handleSubmitUnguarded ==
  /\ ~effectPending
  /\ SubmitButtonShown
  /\ submitted' = TRUE
  /\ Record("submit", Null)
  /\ UNCHANGED <<quizBank, activeQuizId, questions, questionIndex,
                 selectedChoice, finished, effectPending>>

\* A submit request while the Submit button is shown.  The button is
\* disabled while no choice is selected; the handler's own early return
\* covers a request that arrives all the same.
handleSubmit ==
  /\ ~effectPending
  /\ SubmitButtonShown
  /\ IF selectedChoice = Null
     THEN UNCHANGED submitted
     ELSE submitted' = TRUE
  /\ Record("submit", Null)
  /\ UNCHANGED <<quizBank, activeQuizId, questions, questionIndex,
                 selectedChoice, finished, effectPending>>

\* Variant of handleNext whose bound test is off by one
\* (questionIndex < questions.length).
handleNextPastEnd ==
  /\ ~effectPending
  /\ NextButtonShown
  /\ IF questionIndex < Len(questions)
     THEN /\ questionIndex' = questionIndex + 1
          /\ selectedChoice' = Null
          /\ submitted' = FALSE
          /\ UNCHANGED finished
     ELSE /\ finished' = TRUE
          /\ UNCHANGED <<questionIndex, selectedChoice, submitted>>
  /\ Record("advance", Null)
  /\ UNCHANGED <<quizBank, activeQuizId, questions, effectPending>>

\* Variant of handleNext that keeps the previous question's feedback state.
handleNextKeepsFeedback ==
  /\ ~effectPending
  /\ NextButtonShown
  /\ IF questionIndex < Len(questions) - 1
     THEN /\ questionIndex' = questionIndex + 1
          /\ UNCHANGED <<selectedChoice, submitted, finished>>
     ELSE /\ finished' = TRUE
          /\ UNCHANGED <<questionIndex, selectedChoice, submitted>>
  /\ Record("advance", Null)
  /\ UNCHANGED <<quizBank, activeQuizId, questions, effectPending>>

\* Variant of handleNext that steps over a question (prev + 2).
handleNextSkips ==
  /\ ~effectPending
  /\ NextButtonShown
  /\ IF questionIndex < Len(questions) - 1
     THEN /\ questionIndex' = questionIndex + 2
          /\ selectedChoice' = Null
          /\ submitted' = FALSE
          /\ UNCHANGED finished
     ELSE /\ finished' = TRUE
          /\ UNCHANGED <<questionIndex, selectedChoice, submitted>>
  /\ Record("advance", Null)
  /\ UNCHANGED <<quizBank, activeQuizId, questions, effectPending>>

\* Variant of handleNext without the return of the first branch, so that
\* setFinished(true) runs on every advance.
handleNextFallsThrough ==
  /\ ~effectPending
  /\ NextButtonShown
  /\ IF questionIndex < Len(questions) - 1
     THEN /\ questionIndex' = questionIndex + 1
          /\ selectedChoice' = Null
          /\ submitted' = FALSE
     ELSE UNCHANGED <<questionIndex, selectedChoice, submitted>>
  /\ finished' = TRUE
  /\ Record("advance", Null)
  /\ UNCHANGED <<quizBank, activeQuizId, questions, effectPending>>

\* Click on the Next / Finish button.
handleNext ==
  /\ ~effectPending
  /\ NextButtonShown
  /\ IF questionIndex < Len(questions) - 1
     THEN /\ questionIndex' = questionIndex + 1
          /\ selectedChoice' = Null
          /\ submitted' = FALSE
          /\ UNCHANGED finished
     ELSE /\ finished' = TRUE
          /\ UNCHANGED <<questionIndex, selectedChoice, submitted>>
  /\ Record("advance", Null)
  /\ UNCHANGED <<quizBank, activeQuizId, questions, effectPending>>

\* Variant of Replay that keeps the last selected choice.
ReplayKeepsChoice ==
  /\ ~effectPending
  /\ FinishedPanelShown
  /\ questionIndex' = 0
  /\ finished' = FALSE
  /\ Record("replay", Null)
  /\ UNCHANGED <<quizBank, activeQuizId, questions, selectedChoice, submitted,
                 effectPending>>

\* Click on "Replay this quiz".
Replay ==
  /\ ~effectPending
  /\ FinishedPanelShown
  /\ questionIndex' = 0
  /\ selectedChoice' = Null
  /\ finished' = FALSE
  /\ Record("replay", Null)
  /\ UNCHANGED <<quizBank, activeQuizId, questions, submitted, effectPending>>

Next ==
  \/ ResetEffect
  \/ SelectQuiz
  \/ ExitQuiz
  \/ handleSelect
  \/ handleSubmit
  \/ handleNext
  \/ Replay

Spec == Init /\ [][Next]_vars

TypeOK ==
  /\ quizBank \in Banks
  /\ activeQuizId \in QuizIds \cup {Null}
  /\ questionIndex \in 0..MaxNumber
  /\ selectedChoice \in {"A", "B", "C", Null}
  /\ finished \in BOOLEAN
  /\ submitted \in BOOLEAN
  /\ effectPending \in BOOLEAN
  /\ lastOp \in {"mount", "selectQuiz", "exitQuiz", "selectChoice", "submit",
                 "advance", "replay"}
  /\ lastArg \in QuizIds \cup {"A", "B", "C", Null}
  /\ advances \in 0..MaxNumber

-----------------------------------------------------------------------------
(* Properties.                                                             *)

\* The four progress cells hold their reset values.
ProgressReset ==
  /\ questionIndex = 0
  /\ selectedChoice = Null
  /\ submitted = FALSE
  /\ finished = FALSE

\* The last user operation left the whole session as it found it.
SessionUntouched == Snapshot = pre

\* questions[questionIndex] of the session the last operation was requested in.
PreHasCurrentQuestion == pre.questionIndex + 1 \in DOMAIN pre.questions

\* C1 as stated: once selectQuiz(q) has completed (the reset effect, if any,
\* has run), position = 0, selectedChoice is absent, submitted = false and
\* finished = false, for every q of the selector and every prior state.
C1_AsStated ==
  (lastOp = "selectQuiz" /\ ~effectPending) => ProgressReset

\* C1 amended: once selectQuiz(q) has completed for a q different from the
\* quiz id that was active, the four progress cells hold their reset values;
\* selectQuiz(q) for the q that is already active changes nothing.
C1_SelectQuizResets ==
  (lastOp = "selectQuiz" /\ ~effectPending) =>
    IF lastArg # pre.activeQuizId
    THEN ProgressReset /\ activeQuizId = lastArg
    ELSE SessionUntouched

\* A completed selectQuiz that swapped quizzes away from a session with
\* progress in it.
C1_Witness ==
  /\ lastOp = "selectQuiz"
  /\ ~effectPending
  /\ lastArg # pre.activeQuizId
  /\ pre.questionIndex > 0
  /\ pre.submitted
  /\ pre.selectedChoice # Null

\* C2: the state immediately after replay has submitted = false, so the
\* Next / Finish button is not offered before a choice has been selected and
\* submitted for the question at position 0.
C2_ReplayReopens ==
  lastOp = "replay" => (~submitted /\ ~NextButtonShown)

\* C3: replay, requested in a finished state, yields position = 0,
\* selectedChoice absent and finished = false, and leaves activeQuizId and
\* the question list as they were.
C3_ReplayFrame ==
  lastOp = "replay" =>
    /\ pre.finished
    /\ questionIndex = 0
    /\ selectedChoice = Null
    /\ finished = FALSE
    /\ activeQuizId = pre.activeQuizId
    /\ questions = pre.questions

\* A replay of a quiz that was finished at a later position with a choice
\* selected.
C3_Witness ==
  /\ lastOp = "replay"
  /\ pre.finished
  /\ pre.questionIndex > 0
  /\ pre.selectedChoice # Null

\* C4: advance is taken only from a state with submitted = true that is not
\* finished and has a current question; with submitted = false no advance
\* step exists.
C4_AdvanceNeedsSubmitted ==
  /\ lastOp = "advance" =>
       (pre.submitted /\ ~pre.finished /\ PreHasCurrentQuestion)
  /\ ~submitted => ~ENABLED handleNext

\* An advance has been taken.
C4_Witness ==
  lastOp = "advance" /\ pre.submitted /\ pre.selectedChoice # Null

\* C5: advance taken at the last index of a non-empty list sets finished and
\* leaves position (which stays below the length), activeQuizId and the
\* question list unchanged.
C5_AdvanceAtLast ==
  (/\ lastOp = "advance"
   /\ Len(pre.questions) > 0
   /\ pre.questionIndex = Len(pre.questions) - 1) =>
    /\ finished = TRUE
    /\ questionIndex = pre.questionIndex
    /\ questionIndex <= Len(questions) - 1
    /\ activeQuizId = pre.activeQuizId
    /\ questions = pre.questions

\* An advance taken at the last index of a list of several questions.
C5_Witness ==
  /\ lastOp = "advance"
  /\ Len(pre.questions) > 1
  /\ pre.questionIndex = Len(pre.questions) - 1
  /\ finished

\* C6: advance taken below the last index increases position by one, clears
\* selectedChoice and submitted and keeps finished false; isCorrect is false
\* and wrongRationale is absent for the new current question.
C6_AdvanceBelowLast ==
  (lastOp = "advance" /\ pre.questionIndex < Len(pre.questions) - 1) =>
    /\ questionIndex = pre.questionIndex + 1
    /\ selectedChoice = Null
    /\ submitted = FALSE
    /\ finished = FALSE
    /\ pre.finished = FALSE
    /\ isCorrect = FALSE
    /\ wrongReason = <<>>

\* An advance below the last index, away from a graded wrong answer.
C6_Witness ==
  /\ lastOp = "advance"
  /\ pre.questionIndex < Len(pre.questions) - 1
  /\ pre.selectedChoice # Null
  /\ pre.selectedChoice # pre.questions[pre.questionIndex + 1].correct_answer
  /\ questionIndex = pre.questionIndex + 1

\* C7: selectChoice(key) is taken only in a non-finished state with a current
\* question; it yields selectedChoice = key and submitted = false and leaves
\* position, finished, activeQuizId and the question list unchanged; in a
\* finished state no selectChoice step exists.
C7_SelectChoiceFrame ==
  /\ lastOp = "selectChoice" =>
       /\ ~pre.finished
       /\ PreHasCurrentQuestion
       /\ selectedChoice = lastArg
       /\ submitted = FALSE
       /\ questionIndex = pre.questionIndex
       /\ finished = pre.finished
       /\ activeQuizId = pre.activeQuizId
       /\ questions = pre.questions
  /\ finished => ~ENABLED handleSelect

\* A selectChoice taken after a submission, changing the pick.
C7_Witness ==
  /\ lastOp = "selectChoice"
  /\ pre.submitted
  /\ pre.selectedChoice # Null
  /\ pre.selectedChoice # lastArg

\* C8: submit requested with no choice selected changes nothing (submitted
\* stays false); submit requested with a choice selected sets submitted and
\* changes nothing else.
C8_SubmitGuard ==
  lastOp = "submit" =>
    IF pre.selectedChoice = Null
    THEN SessionUntouched /\ submitted = FALSE
    ELSE /\ submitted = TRUE
         /\ Snapshot = [pre EXCEPT !.submitted = TRUE]

\* A submit requested with no choice selected.
C8_Witness ==
  /\ lastOp = "submit"
  /\ pre.selectedChoice = Null
  /\ PreHasCurrentQuestion
  /\ ~pre.finished

\* C9: isCorrect is true exactly when submitted is true and selectedChoice
\* equals the correct_answer of the question at the current position; it is
\* false when nothing is submitted or there is no current question.
C9_IsCorrectIff ==
  /\ isCorrect <=>
       /\ submitted
       /\ currentQuestion # <<>>
       /\ selectedChoice = currentQuestion[1].correct_answer
  /\ (~submitted \/ currentQuestion = <<>>) => ~isCorrect

\* The correct key has been submitted and is graded correct.
C9_Witness ==
  /\ lastOp = "submit"
  /\ submitted
  /\ currentQuestion # <<>>
  /\ selectedChoice = currentQuestion[1].correct_answer
  /\ isCorrect

\* C10: wrongRationale is present only if submitted is true and
\* selectedChoice is set and differs from the current question's
\* correct_answer; under those conditions its value is
\* why_incorrect[selectedChoice] when that entry exists and absent otherwise;
\* isCorrect and a present wrongRationale never hold together.
C10_WrongRationale ==
  /\ wrongReason # <<>> =>
       /\ submitted
       /\ selectedChoice # Null
       /\ currentQuestion # <<>>
       /\ selectedChoice # currentQuestion[1].correct_answer
  /\ (/\ submitted
      /\ selectedChoice # Null
      /\ currentQuestion # <<>>
      /\ selectedChoice # currentQuestion[1].correct_answer) =>
       \/ /\ selectedChoice \in DOMAIN currentQuestion[1].why_incorrect
          /\ wrongReason = <<currentQuestion[1].why_incorrect[selectedChoice]>>
       \/ /\ selectedChoice \notin DOMAIN currentQuestion[1].why_incorrect
          /\ wrongReason = <<>>
  /\ ~(isCorrect /\ wrongReason # <<>>)

\* A wrong key that has a why_incorrect entry has been submitted.
C10_Witness ==
  /\ lastOp = "submit"
  /\ submitted
  /\ currentQuestion # <<>>
  /\ selectedChoice # Null
  /\ selectedChoice # currentQuestion[1].correct_answer
  /\ wrongReason = <<currentQuestion[1].why_incorrect[selectedChoice]>>

\* C11: once selectQuiz(q) has completed for a q that is absent from the bank
\* or whose quiz has no questions, the question list is empty and
\* position = 0; no submit and no advance step exists, and finished is false
\* for as long as that quiz stays active.
C11_EmptyQuizInert ==
  (/\ ~effectPending
   /\ activeQuizId # Null
   /\ \/ quizBank[activeQuizId] = <<>>
      \/ FlatMap(quizBank[activeQuizId][1].categories) = <<>>) =>
    /\ questions = <<>>
    /\ questionIndex = 0
    /\ selectedChoice = Null
    /\ submitted = FALSE
    /\ finished = FALSE
    /\ ~ENABLED handleSubmit
    /\ ~ENABLED handleNext

\* A completed selectQuiz of an absent or empty quiz, requested in a
\* finished session of another quiz.
C11_Witness ==
  /\ lastOp = "selectQuiz"
  /\ ~effectPending
  /\ activeQuizId = lastArg
  /\ questions = <<>>
  /\ pre.finished
  /\ pre.questionIndex > 0

\* e is question q annotated with category name `name`.
IsEnriched(e, q, name) ==
  /\ e.number = q.number
  /\ e.question = q.question
  /\ e.choices = q.choices
  /\ e.correct_answer = q.correct_answer
  /\ e.why_correct = q.why_correct
  /\ e.why_incorrect = q.why_incorrect
  /\ e.category = name

\* The categories of the active quiz; <<>> when the quiz is absent.
ActiveCategories ==
  IF activeQuizId = Null THEN <<>>
  ELSE IF quizBank[activeQuizId] = <<>> THEN <<>>
  ELSE quizBank[activeQuizId][1].categories

\* C12: the question list holds every question of every category of the
\* active quiz exactly once, annotated with its own category's name, and
\* nothing else; it is strictly ascending by number; flattening again gives
\* the same list; an absent quiz or one without questions gives the empty
\* list.
C12_FlattenSorted ==
  /\ \A c \in DOMAIN ActiveCategories :
       \A k \in DOMAIN ActiveCategories[c].questions :
         Cardinality({ i \in DOMAIN questions :
                         IsEnriched(questions[i],
                                    ActiveCategories[c].questions[k],
                                    ActiveCategories[c].category) }) = 1
  /\ \A i \in DOMAIN questions :
       \E c \in DOMAIN ActiveCategories :
         \E k \in DOMAIN ActiveCategories[c].questions :
           IsEnriched(questions[i], ActiveCategories[c].questions[k],
                      ActiveCategories[c].category)
  /\ \A i, j \in DOMAIN questions :
       i < j => questions[i].number < questions[j].number
  /\ Flatten(quizBank, activeQuizId) = questions
  /\ (\A c \in DOMAIN ActiveCategories :
        ActiveCategories[c].questions = <<>>) => questions = <<>>

\* The list computed on a swap to a quiz whose two categories interleave
\* and whose source order is not ascending.
C12_Witness ==
  /\ lastOp = "selectQuiz"
  /\ activeQuizId = lastArg
  /\ pre.activeQuizId # lastArg
  /\ Len(questions) >= 3
  /\ questions # FlatMap(ActiveCategories)
  /\ \E i, j \in DOMAIN questions :
       i < j /\ questions[i].category = CategoryNames[2]
             /\ questions[j].category = CategoryNames[1]
  /\ \E i, j \in DOMAIN questions :
       i < j /\ questions[i].category = CategoryNames[1]
             /\ questions[j].category = CategoryNames[2]

\* C13: once exitQuiz has completed, activeQuizId is absent, the question
\* list is empty, position = 0, selectedChoice is absent and submitted and
\* finished are false.
C13_ExitQuizClears ==
  (lastOp = "exitQuiz" /\ ~effectPending) =>
    /\ activeQuizId = Null
    /\ questions = <<>>
    /\ ProgressReset

\* A completed exitQuiz, requested in a session finished at a later
\* position with a choice selected.
C13_Witness ==
  /\ lastOp = "exitQuiz"
  /\ ~effectPending
  /\ pre.finished
  /\ pre.activeQuizId # Null
  /\ pre.questionIndex > 0
  /\ pre.selectedChoice # Null

\* C14: in no rendered state do activeQuizId and the question list already
\* belong to the quiz just switched to while position, selectedChoice,
\* submitted or finished still hold values carried over from the previous
\* quiz.
C14_SwitchAtomic ==
  (/\ lastOp \in {"selectQuiz", "exitQuiz"}
   /\ activeQuizId = lastArg
   /\ pre.activeQuizId # lastArg
   /\ questions = Flatten(quizBank, lastArg)) =>
    ProgressReset

\* C15: within one run of a quiz with N >= 1 questions, after k advance
\* operations the current question is the k-th of the list (counting from
\* 0), for k < N, and the run is finished exactly when N advance operations
\* have been taken, with position still N - 1.
C15_RunVisitsInOrder ==
  (~effectPending /\ Len(questions) >= 1) =>
    IF finished
    THEN /\ advances = Len(questions)
         /\ questionIndex = Len(questions) - 1
    ELSE /\ advances < Len(questions)
         /\ questionIndex = advances
         /\ currentQuestion = <<questions[advances + 1]>>

\* A run of a quiz of at least three questions that has been finished.
C15_Witness ==
  /\ ~effectPending
  /\ lastOp = "advance"
  /\ finished
  /\ Len(questions) >= 3
  /\ advances = Len(questions)

\* C16: submitted = true implies that selectedChoice is set, in every
\* reachable state; so every advance is taken with a choice selected.
C16_SubmittedHasChoice ==
  /\ submitted => selectedChoice # Null
  /\ lastOp = "advance" => pre.selectedChoice # Null

\* C17: while no reset effect is pending, finished = true implies that the
\* question list is non-empty, position is the last index and submitted is
\* true.
C17_FinishedShape ==
  (~effectPending /\ finished) =>
    /\ Len(questions) >= 1
    /\ questionIndex = Len(questions) - 1
    /\ submitted = TRUE

\* A session finished by an advance at the end of a list of several
\* questions.
C17_Witness ==
  /\ ~effectPending
  /\ finished
  /\ lastOp = "advance"
  /\ Len(questions) >= 2
  /\ pre.questionIndex = Len(questions) - 1

\* C18: while no reset effect is pending, position is an index of the
\* question list when the list is non-empty and 0 when it is empty, and
\* selectedChoice, when set, is a key of the choices of the question at
\* position.
C18_PositionAndChoiceValid ==
  ~effectPending =>
    /\ IF Len(questions) > 0
       THEN 0 <= questionIndex /\ questionIndex < Len(questions)
       ELSE questionIndex = 0
    /\ selectedChoice # Null =>
         /\ currentQuestion # <<>>
         /\ selectedChoice \in DOMAIN currentQuestion[1].choices

\* A key that only some questions offer is selected at a later position.
C18_Witness ==
  /\ ~effectPending
  /\ lastOp = "selectChoice"
  /\ questionIndex > 0
  /\ selectedChoice = "C"
  /\ \E i \in DOMAIN questions : "C" \notin DOMAIN questions[i].choices
====
